---- MODULE Spec2Model ----
(***************************************************************************)
(* EngineUtilities: the ownership handles (TSharedPointer, TWeakPointer,   *)
(* TUniquePtr) and the dynamic containers (TArray, TMap) as state          *)
(* machines, one action per constructor, destructor or method.             *)
(*                                                                         *)
(* Heap model.  Managed objects get fresh identities 1..MaxObj (0 is       *)
(* nullptr); obj[o] records how often `delete` ran on o.  Counter cells    *)
(* (the `new int(1)` of TSharedPointer) live at addresses 1..NCells that   *)
(* the allocator may hand out again after `delete refCount`.  Reading a    *)
(* freed cell is undefined behaviour: the read yields any value of Garbage *)
(* and sets uaf; the run is not followed beyond a use after free or a      *)
(* double delete (Stopped), where the program may do anything.             *)
(***************************************************************************)
EXTENDS Integers, Sequences, FiniteSets

\* ---------------------------------------------------------------- bounds
NShared == 3
NWeak == 1
NUnique == 2
NCells == 2
MaxObj == 3
MaxGarbage == 1
MaxVal == 2
MaxSize == 6
MaxKey == 2
MaxElem == 3
MaxPairKey == 2
MaxPairVal == 2
NStatic == 2
MaxStaticObj == 3

SharedIds == 1..NShared
WeakIds == 1..NWeak
UniqueIds == 1..NUnique
Cells == 1..NCells
Objs == 1..MaxObj
Garbage == 0..MaxGarbage
NullPtr == 0
Vals == 1..MaxVal
Indices == 0..MaxSize
Keys == 0..MaxKey
SetElems == 0..MaxElem
PairKeys == 0..MaxPairKey
PairVals == 0..MaxPairVal
\* Two instantiations, TStaticPtr<A> and TStaticPtr<B>: each has its own
\* static instance.
Types == {1, 2}
StaticObjs == 1..MaxStaticObj
\* Map values are opaque to TMap: two distinct ones tell an overwrite apart.
MapVals == {1, 2}

VARIABLES
  sp,     \* sp[i]: a TSharedPointer variable: [live, ptr, refCount]
  wp,     \* wp[w]: a TWeakPointer variable:   [live, ptr, refCount]
  cell,   \* cell[c]: a counter cell: [alloc, val]
  obj,    \* obj[o]: "none" (not yet allocated) | "live" | "destroyed" | "destroyedTwice"
  uaf,    \* a freed counter cell has been read or written
  up,     \* up[i]: a TUniquePtr variable: [live, ptr]
  raw,    \* the objects the caller owns through a raw pointer release() returned
  arr,    \* a TArray<int>: [Data, Capacity, Size]; Data[k] is the C++ Data[k-1]
  absList, \* the abstract list the TArray is meant to hold
  arrRemoved, \* RemoveAt has removed an element of the TArray
  map,    \* a TMap<int, int>: [Data, Capacity, Size] with Data a buffer of Pairs
  set,    \* a TSet<int>: [Data, Capacity, Size]
  absSet, \* the elements the TSet is meant to hold, in insertion order
  heap,   \* heap[c]: the buffers container c ("arr", "map", "set") has allocated
  exited, \* exit(1) has been called: the process has terminated
  ret,    \* what the most recent container call returned (Void if nothing)
  cerr,   \* what the most recent container call wrote to std::cerr ("" if nothing)
  pa, pb, \* two TPair<int, int> values: [Key, Value]
  cmp,    \* what the six comparison operators returned for (pa, pb)
  instance, \* instance[t]: the static TStaticPtr<T>::instance of type t
  sobj,   \* sobj[t][o]: state of object o of type t, as obj
  sh,     \* sh[t]: the number of live TStaticPtr<T> objects
  last    \* the name of the operation that produced this state

vars == <<sp, wp, cell, obj, uaf, up, raw, arr, absList, arrRemoved, map,
          set, absSet, heap, exited, ret, cerr, pa, pb, cmp, instance, sobj, sh, last>>

\* What the operations of one component leave alone.
arrayVars == <<arr, absList, arrRemoved>>
setVars == <<set, absSet>>
pairVars == <<pa, pb, cmp>>
staticVars == <<instance, sobj, sh>>
pointerVars == <<sp, wp, cell, obj, uaf, up, raw>>
processVars == <<exited, ret, cerr>>
NotShared == <<up, raw, arrayVars, map, setVars, heap, processVars, pairVars, staticVars>>
NotUnique == <<sp, wp, cell, uaf, arrayVars, map, setVars, heap, processVars, pairVars, staticVars>>
NotArray == <<pointerVars, map, setVars, pairVars, staticVars>>
NotMap == <<pointerVars, arrayVars, setVars, pairVars, staticVars>>
NotSet == <<pointerVars, arrayVars, map, pairVars, staticVars>>
NotPair == <<pointerVars, arrayVars, map, setVars, heap, processVars, staticVars>>
NotStatic == <<pointerVars, arrayVars, map, setVars, heap, processVars, pairVars>>

\* ------------------------------------------------------------------ heap
Handle(p, c) == [live |-> TRUE, ptr |-> p, refCount |-> c]
DeadHandle == [live |-> FALSE, ptr |-> NullPtr, refCount |-> NullPtr]

\* `delete ptr`: deleting nullptr does nothing; deleting a destroyed object
\* is a double delete, kept on record.
Delete(ob, p) ==
  IF p = NullPtr THEN ob
  ELSE [ob EXCEPT ![p] = IF @ = "live" THEN "destroyed" ELSE "destroyedTwice"]

\* `delete refCount`: the cell returns to the allocator.
DeleteCell(cl, c) == [cl EXCEPT ![c] = [alloc |-> FALSE, val |-> 0]]

\* `new int(1)` at address c.
NewCell(cl, c) == [cl EXCEPT ![c] = [alloc |-> TRUE, val |-> 1]]
FreeCells == {c \in Cells : ~cell[c].alloc}

\* `new T(args...)`: the next fresh object.
UnusedObjs == {o \in Objs : obj[o] = "none"}
FreshObj == CHOOSE o \in UnusedObjs : \A q \in UnusedObjs : o <= q
NewObj(ob, o) == [ob EXCEPT ![o] = "live"]

\* A faulty variant: the target is destroyed while one more handle holds it.
ReleaseAtOne(h, cl, ob) ==
  IF h.refCount = NullPtr THEN [cell |-> cl, obj |-> ob]
  ELSE LET dec == [cl EXCEPT ![h.refCount].val = @ - 1]
       IN IF dec[h.refCount].val <= 1
          THEN [cell |-> DeleteCell(dec, h.refCount), obj |-> Delete(ob, h.ptr)]
          ELSE [cell |-> dec, obj |-> ob]
\* if (refCount && --(*refCount) == 0) { delete ptr; delete refCount; }
Release(h, cl, ob) ==
  IF h.refCount = NullPtr THEN [cell |-> cl, obj |-> ob]
  ELSE LET dec == [cl EXCEPT ![h.refCount].val = @ - 1]
       IN IF dec[h.refCount].val = 0
          THEN [cell |-> DeleteCell(dec, h.refCount), obj |-> Delete(ob, h.ptr)]
          ELSE [cell |-> dec, obj |-> ob]

\* A handle whose refCount points into freed memory: touching *refCount is a
\* use after free.
Dangling(h) == h.refCount # NullPtr /\ ~cell[h.refCount].alloc

\* if (refCount) { ++(*refCount); }
Acquire(c, cl) == IF c = NullPtr THEN cl ELSE [cl EXCEPT ![c].val = @ + 1]

\* After a use after free or a double delete the behaviour of the program
\* is undefined; the run is not followed further.
Stopped == uaf \/ \E o \in Objs : obj[o] = "destroyedTwice"

\* ------------------------------------------------------- TSharedPointer
\* TSharedPointer()
TSharedPointer_default(i) ==
  /\ ~Stopped
  /\ ~sp[i].live
  /\ sp' = [sp EXCEPT ![i] = Handle(NullPtr, NullPtr)]
  /\ last' = "default"
  /\ UNCHANGED NotShared
  /\ UNCHANGED <<wp, cell, obj, uaf>>

\* explicit TSharedPointer(T* rawPtr), rawPtr = new T (MakeShared) or nullptr
TSharedPointer_raw(i, fresh) ==
  /\ ~Stopped
  /\ ~sp[i].live
  /\ fresh => UnusedObjs # {}
  /\ \E c \in FreeCells :
       LET p == IF fresh THEN FreshObj ELSE NullPtr
       IN /\ sp' = [sp EXCEPT ![i] = Handle(p, c)]
          /\ cell' = NewCell(cell, c)
          /\ obj' = IF fresh THEN NewObj(obj, p) ELSE obj
  /\ last' = "raw"
  /\ UNCHANGED NotShared
  /\ UNCHANGED <<wp, uaf>>

\* TSharedPointer(T* rawPtr, int* existingRefCount), given the public
\* (ptr, refCount) of handle j
TSharedPointer_rawCounter(i, j) ==
  /\ ~Stopped
  /\ ~sp[i].live /\ sp[j].live
  /\ sp' = [sp EXCEPT ![i] = Handle(sp[j].ptr, sp[j].refCount)]
  /\ cell' = Acquire(sp[j].refCount, cell)
  /\ uaf' = (uaf \/ Dangling(sp[j]))
  /\ last' = "rawCounter"
  /\ UNCHANGED NotShared
  /\ UNCHANGED <<wp, obj>>

\* TSharedPointer(const TSharedPointer<T>& other)
TSharedPointer_copy(i, j) ==
  /\ ~Stopped
  /\ ~sp[i].live /\ sp[j].live
  /\ sp' = [sp EXCEPT ![i] = Handle(sp[j].ptr, sp[j].refCount)]
  /\ cell' = Acquire(sp[j].refCount, cell)
  /\ uaf' = (uaf \/ Dangling(sp[j]))
  /\ last' = "copy"
  /\ UNCHANGED NotShared
  /\ UNCHANGED <<wp, obj>>

\* TSharedPointer(TSharedPointer<T>&& other)
TSharedPointer_move(i, j) ==
  /\ ~Stopped
  /\ ~sp[i].live /\ sp[j].live
  /\ sp' = [sp EXCEPT ![i] = Handle(sp[j].ptr, sp[j].refCount),
                      ![j] = Handle(NullPtr, NullPtr)]
  /\ last' = "move"
  /\ UNCHANGED NotShared
  /\ UNCHANGED <<wp, cell, obj, uaf>>

\* Which case of an assignment sp_i = sp_j is at hand.
AssignCase(i, j) ==
  IF i = j THEN "/self"
  ELSE IF sp[i].refCount # NullPtr /\ sp[i].refCount = sp[j].refCount THEN "/aliased"
  ELSE ""

\* A faulty variant: no test for self-assignment.
TSharedPointer_assignNoSelfTest(i, j) ==
  /\ ~Stopped
  /\ sp[i].live /\ sp[j].live
  /\ LET r == Release(sp[i], cell, obj)
     IN /\ sp' = [sp EXCEPT ![i] = Handle(sp[j].ptr, sp[j].refCount)]
        /\ cell' = Acquire(sp[j].refCount, r.cell)
        /\ obj' = r.obj
  /\ uaf' = (uaf \/ Dangling(sp[i]) \/ Dangling(sp[j]))
  /\ last' = "assign" \o AssignCase(i, j)
  /\ UNCHANGED NotShared
  /\ UNCHANGED wp
\* operator=(const TSharedPointer<T>& other); i = j is self-assignment
TSharedPointer_assign(i, j) ==
  /\ ~Stopped
  /\ sp[i].live /\ sp[j].live
  /\ IF i # j
       THEN LET r == Release(sp[i], cell, obj)
            IN /\ sp' = [sp EXCEPT ![i] = Handle(sp[j].ptr, sp[j].refCount)]
               /\ cell' = Acquire(sp[j].refCount, r.cell)
               /\ obj' = r.obj
       ELSE UNCHANGED <<sp, cell, obj>>
  /\ uaf' = (uaf \/ (i # j /\ (Dangling(sp[i]) \/ Dangling(sp[j]))))
  /\ last' = "assign" \o AssignCase(i, j)
  /\ UNCHANGED NotShared
  /\ UNCHANGED wp

\* A faulty variant: the source keeps its fields.
TSharedPointer_moveAssignKeepsSource(i, j) ==
  /\ ~Stopped
  /\ sp[i].live /\ sp[j].live
  /\ IF i # j
       THEN LET r == Release(sp[i], cell, obj)
            IN /\ sp' = [sp EXCEPT ![i] = Handle(sp[j].ptr, sp[j].refCount)]
               /\ cell' = r.cell
               /\ obj' = r.obj
       ELSE UNCHANGED <<sp, cell, obj>>
  /\ uaf' = (uaf \/ (i # j /\ Dangling(sp[i])))
  /\ last' = "moveAssign" \o AssignCase(i, j)
  /\ UNCHANGED NotShared
  /\ UNCHANGED wp
\* operator=(TSharedPointer<T>&& other)
TSharedPointer_moveAssign(i, j) ==
  /\ ~Stopped
  /\ sp[i].live /\ sp[j].live
  /\ IF i # j
       THEN LET r == Release(sp[i], cell, obj)
            IN /\ sp' = [sp EXCEPT ![i] = Handle(sp[j].ptr, sp[j].refCount),
                                   ![j] = Handle(NullPtr, NullPtr)]
               /\ cell' = r.cell
               /\ obj' = r.obj
       ELSE UNCHANGED <<sp, cell, obj>>
  /\ uaf' = (uaf \/ (i # j /\ Dangling(sp[i])))
  /\ last' = "moveAssign" \o AssignCase(i, j)
  /\ UNCHANGED NotShared
  /\ UNCHANGED wp

\* ~TSharedPointer()
TSharedPointer_destroy(i) ==
  /\ ~Stopped
  /\ sp[i].live
  /\ LET r == Release(sp[i], cell, obj)
       IN /\ sp' = [sp EXCEPT ![i] = DeadHandle]
          /\ cell' = r.cell
          /\ obj' = r.obj
  /\ uaf' = (uaf \/ Dangling(sp[i]))
  /\ last' = "destroy"
  /\ UNCHANGED NotShared
  /\ UNCHANGED wp

\* void swap(TSharedPointer<T>& other)
TSharedPointer_swap(i, j) ==
  /\ ~Stopped
  /\ sp[i].live /\ sp[j].live
  /\ sp' = [sp EXCEPT ![i] = sp[j], ![j] = sp[i]]
  /\ last' = "swap"
  /\ UNCHANGED NotShared
  /\ UNCHANGED <<wp, cell, obj, uaf>>

\* Another live handle holds the counter of handle i.
IsShared(i) ==
  /\ sp[i].refCount # NullPtr
  /\ \E k \in SharedIds \ {i} : sp[k].live /\ sp[k].refCount = sp[i].refCount

\* A faulty variant: the new object is put under the counter already held.
TSharedPointer_resetReusesCounter(i, fresh) ==
  /\ ~Stopped
  /\ sp[i].live
  /\ fresh => UnusedObjs # {}
  /\ IF ~fresh \/ sp[i].refCount = NullPtr
       THEN LET r == Release(sp[i], cell, obj)
            IN IF ~fresh
               THEN /\ sp' = [sp EXCEPT ![i] = Handle(NullPtr, NullPtr)]
                    /\ cell' = r.cell
                    /\ obj' = r.obj
               ELSE \E c \in {x \in Cells : ~r.cell[x].alloc} :
                      /\ sp' = [sp EXCEPT ![i] = Handle(FreshObj, c)]
                      /\ cell' = NewCell(r.cell, c)
                      /\ obj' = NewObj(r.obj, FreshObj)
       ELSE /\ sp' = [sp EXCEPT ![i] = Handle(FreshObj, sp[i].refCount)]
            /\ obj' = NewObj(obj, FreshObj)
            /\ UNCHANGED cell
  /\ uaf' = (uaf \/ Dangling(sp[i]))
  /\ last' = IF ~fresh THEN "reset"
             ELSE IF IsShared(i) THEN "resetNew/shared" ELSE "resetNew"
  /\ UNCHANGED NotShared
  /\ UNCHANGED wp
\* void reset(T* newPtr = nullptr), newPtr = new T or nullptr
TSharedPointer_reset(i, fresh) ==
  /\ ~Stopped
  /\ sp[i].live
  /\ fresh => UnusedObjs # {}
  /\ LET r == Release(sp[i], cell, obj)
       IN IF ~fresh
          THEN /\ sp' = [sp EXCEPT ![i] = Handle(NullPtr, NullPtr)]
               /\ cell' = r.cell
               /\ obj' = r.obj
          ELSE \E c \in {x \in Cells : ~r.cell[x].alloc} :
                 /\ sp' = [sp EXCEPT ![i] = Handle(FreshObj, c)]
                 /\ cell' = NewCell(r.cell, c)
                 /\ obj' = NewObj(r.obj, FreshObj)
  /\ uaf' = (uaf \/ Dangling(sp[i]))
  /\ last' = IF ~fresh THEN "reset"
             ELSE IF IsShared(i) THEN "resetNew/shared" ELSE "resetNew"
  /\ UNCHANGED NotShared
  /\ UNCHANGED wp

\* --------------------------------------------------------- TWeakPointer
\* TWeakPointer()
TWeakPointer_default(w) ==
  /\ ~Stopped
  /\ ~wp[w].live
  /\ wp' = [wp EXCEPT ![w] = Handle(NullPtr, NullPtr)]
  /\ last' = "weakDefault"
  /\ UNCHANGED NotShared
  /\ UNCHANGED <<sp, cell, obj, uaf>>

\* A faulty variant: the weak handle takes a share of the counter.
TWeakPointer_fromSharedAcquires(w, j) ==
  /\ ~Stopped
  /\ ~wp[w].live /\ sp[j].live
  /\ wp' = [wp EXCEPT ![w] = Handle(sp[j].ptr, sp[j].refCount)]
  /\ cell' = Acquire(sp[j].refCount, cell)
  /\ last' = "weak"
  /\ UNCHANGED NotShared
  /\ UNCHANGED <<sp, obj, uaf>>
\* TWeakPointer(const TSharedPointer<T>& sharedPtr)
TWeakPointer_fromShared(w, j) ==
  /\ ~Stopped
  /\ ~wp[w].live /\ sp[j].live
  /\ wp' = [wp EXCEPT ![w] = Handle(sp[j].ptr, sp[j].refCount)]
  /\ last' = "weak"
  /\ UNCHANGED NotShared
  /\ UNCHANGED <<sp, cell, obj, uaf>>

\* ~TWeakPointer() (implicit): nothing is released
TWeakPointer_destroy(w) ==
  /\ ~Stopped
  /\ wp[w].live
  /\ wp' = [wp EXCEPT ![w] = DeadHandle]
  /\ last' = "weakDestroy"
  /\ UNCHANGED NotShared
  /\ UNCHANGED <<sp, cell, obj, uaf>>

\* What `*refCount` yields in lock(): the counter while the cell is
\* allocated, any value once it was freed.
CounterReads(h) ==
  IF cell[h.refCount].alloc THEN {cell[h.refCount].val} ELSE Garbage

\* A faulty variant: the promoted handle does not take a share.
lockSkipsIncrement(h, v, cl) ==
  IF h.refCount # NullPtr /\ v > 0
  THEN [ret |-> Handle(h.ptr, h.refCount), cell |-> cl]
  ELSE [ret |-> Handle(NullPtr, NullPtr), cell |-> cl]

\* lock() of wp[w] with *refCount read as v: the handle it returns and the
\* cells afterwards.
\*   if (refCount && *refCount > 0) return TSharedPointer<T>(ptr, refCount);
\*   return TSharedPointer<T>();
lock(h, v, cl) ==
  IF h.refCount # NullPtr /\ v > 0
  THEN [ret |-> Handle(h.ptr, h.refCount),
        cell |-> [cl EXCEPT ![h.refCount].val = v + 1]]
  ELSE [ret |-> Handle(NullPtr, NullPtr), cell |-> cl]

\* TSharedPointer<T> sp_i = wp_w.lock();
TWeakPointer_lock(w, i) ==
  /\ ~Stopped
  /\ wp[w].live /\ ~sp[i].live
  /\ \E v \in (IF wp[w].refCount = NullPtr THEN {0} ELSE CounterReads(wp[w])) :
       LET r == lock(wp[w], v, cell)
       IN /\ sp' = [sp EXCEPT ![i] = r.ret]
          /\ cell' = r.cell
  /\ uaf' = (uaf \/ Dangling(wp[w]))
  /\ last' = "lock"
  /\ UNCHANGED NotShared
  /\ UNCHANGED <<wp, obj>>

\* ----------------------------------------------------------- TUniquePtr
Unique(p) == [live |-> TRUE, ptr |-> p]
DeadUnique == [live |-> FALSE, ptr |-> NullPtr]

\* The raw pointers a caller may pass: nullptr, a released object it owns,
\* or a freshly allocated one (MakeUnique).
RawArgs == {NullPtr} \cup raw \cup (IF UnusedObjs = {} THEN {} ELSE {FreshObj})
\* The heap once the caller has evaluated its argument p.
Allocated(ob, p) == IF p # NullPtr /\ ob[p] = "none" THEN NewObj(ob, p) ELSE ob

\* Faulty variants: the source keeps its pointer; the old target is leaked.
moveAssignKeepsSource(self, other) ==
  [self |-> Unique(other.ptr), other |-> other, del |-> self.ptr]
moveAssignLeaks(self, other) ==
  [self |-> Unique(other.ptr), other |-> Unique(NullPtr), del |-> NullPtr]
\* operator=(TUniquePtr<T>&& other), this != &other
\*   delete ptr; ptr = other.ptr; other.ptr = nullptr;
moveAssign(self, other) ==
  [self |-> Unique(other.ptr), other |-> Unique(NullPtr), del |-> self.ptr]

\* A faulty variant: the handle keeps the pointer it returns.
releaseKeepsPtr(self) == [self |-> self, ret |-> self.ptr, del |-> NullPtr]
\* T* release():  T* oldPtr = ptr; ptr = nullptr; return oldPtr;
release(self) == [self |-> Unique(NullPtr), ret |-> self.ptr, del |-> NullPtr]

\* void reset(T* rawPtr = nullptr):  delete ptr; ptr = rawPtr;
reset(self, rawPtr) == [self |-> Unique(rawPtr), del |-> self.ptr]

\* TUniquePtr()
TUniquePtr_default(i) ==
  /\ ~Stopped
  /\ ~up[i].live
  /\ up' = [up EXCEPT ![i] = Unique(NullPtr)]
  /\ last' = "unique.default"
  /\ UNCHANGED <<obj, raw>>
  /\ UNCHANGED NotUnique

\* explicit TUniquePtr(T* rawPtr)
TUniquePtr_raw(i, p) ==
  /\ ~Stopped
  /\ ~up[i].live
  /\ up' = [up EXCEPT ![i] = Unique(p)]
  /\ obj' = Allocated(obj, p)
  /\ raw' = raw \ {p}
  /\ last' = "unique.raw"
  /\ UNCHANGED NotUnique

\* TUniquePtr(TUniquePtr<T>&& other)
TUniquePtr_move(i, j) ==
  /\ ~Stopped
  /\ ~up[i].live /\ up[j].live
  /\ up' = [up EXCEPT ![i] = Unique(up[j].ptr), ![j] = Unique(NullPtr)]
  /\ last' = "unique.move"
  /\ UNCHANGED <<obj, raw>>
  /\ UNCHANGED NotUnique

\* operator=(TUniquePtr<T>&& other); i = j is self-assignment
TUniquePtr_moveAssign(i, j) ==
  /\ ~Stopped
  /\ up[i].live /\ up[j].live
  /\ IF i # j
     THEN LET r == moveAssign(up[i], up[j])
          IN /\ up' = [up EXCEPT ![i] = r.self, ![j] = r.other]
             /\ obj' = Delete(obj, r.del)
     ELSE UNCHANGED <<up, obj>>
  /\ last' = "unique.moveAssign"
  /\ UNCHANGED raw
  /\ UNCHANGED NotUnique

\* ~TUniquePtr():  delete ptr;
TUniquePtr_destroy(i) ==
  /\ ~Stopped
  /\ up[i].live
  /\ up' = [up EXCEPT ![i] = DeadUnique]
  /\ obj' = Delete(obj, up[i].ptr)
  /\ last' = "unique.destroy"
  /\ UNCHANGED raw
  /\ UNCHANGED NotUnique

\* T* rawPtr = up_i.release();
TUniquePtr_release(i) ==
  /\ ~Stopped
  /\ up[i].live
  /\ LET r == release(up[i])
     IN /\ up' = [up EXCEPT ![i] = r.self]
        /\ raw' = raw \cup ({r.ret} \ {NullPtr})
        /\ obj' = Delete(obj, r.del)
  /\ last' = "unique.release"
  /\ UNCHANGED NotUnique

\* up_i.reset(p);
TUniquePtr_reset(i, p) ==
  /\ ~Stopped
  /\ up[i].live
  /\ LET r == reset(up[i], p)
     IN /\ up' = [up EXCEPT ![i] = r.self]
        /\ obj' = Delete(Allocated(obj, p), r.del)
  /\ raw' = raw \ {p}
  /\ last' = "unique.reset"
  /\ UNCHANGED NotUnique

\* delete rawPtr;  by the caller, on a pointer release() gave it
CallerDelete(p) ==
  /\ ~Stopped
  /\ p \in raw
  /\ obj' = Delete(obj, p)
  /\ raw' = raw \ {p}
  /\ last' = "caller.delete"
  /\ UNCHANGED up
  /\ UNCHANGED NotUnique

\* --------------------------------------------------------------- TArray
\* What a call of a void member function returns, and what a call that ends
\* in exit(1) returns: nothing.
Void == 0

\* What a slot of `new int[n]` holds before it is assigned: never read.
Indeterminate == 0

\* The buffers of one container: Data is the block the container's Data
\* field points to (NullPtr before the first growth), blocks[p] the capacity
\* and the state ("alloc", "freed", "freedTwice") of the p-th block it got
\* from new[], bad records an access outside an allocated block, destroyed
\* that the container's destructor has run.
NoBuffers == [Data |-> NullPtr, blocks |-> <<>>, bad |-> FALSE, destroyed |-> FALSE]

\* Data[0] .. Data[n - 1] are read or written.
Touch(h, n) ==
  IF n = 0 THEN h
  ELSE [h EXCEPT !.bad = \/ @
                         \/ h.Data = NullPtr
                         \/ h.blocks[h.Data].st # "alloc"
                         \/ n > h.blocks[h.Data].cap]

\* delete[] p: nothing for a null pointer
DeleteArray(h, p) ==
  IF p = NullPtr THEN h
  ELSE [h EXCEPT !.blocks[p].st = IF @ = "alloc" THEN "freed" ELSE "freedTwice"]

\* A faulty variant: the old block is not released.
Heap_ResizeKeepsOld(h, Size, NewCapacity) ==
  LET NewData == Len(h.blocks) + 1
      copied == Touch(h, Size)
  IN [copied EXCEPT !.blocks = Append(@, [cap |-> NewCapacity, st |-> "alloc"]),
                    !.bad = @ \/ Size > NewCapacity,
                    !.Data = NewData]
\* Resize on the heap: new T[NewCapacity], the copy of Size elements,
\* delete[] Data, Data = NewData
Heap_Resize(h, Size, NewCapacity) ==
  LET NewData == Len(h.blocks) + 1
      copied == Touch(h, Size)
      freed == DeleteArray(copied, h.Data)
  IN [freed EXCEPT !.blocks = Append(@, [cap |-> NewCapacity, st |-> "alloc"]),
                   !.bad = @ \/ Size > NewCapacity,
                   !.Data = NewData]

\* One call on the heap: the slots its scan reads, the Resize it makes (the
\* only assignment to Capacity), the slots it then reads or writes.
HeapCall(h, before, after, scanned, written) ==
  LET h1 == Touch(h, scanned)
      h2 == IF after.Capacity # before.Capacity
            THEN Heap_Resize(h1, before.Size, after.Capacity) ELSE h1
  IN Touch(h2, written)

\* ~TArray(), ~TMap(), ~TSet(): delete[] Data
Heap_destroy(h) == [DeleteArray(h, h.Data) EXCEPT !.destroyed = TRUE]

\* The slots a scan for a match reads when it stops at index i (i = Size:
\* no match).
Scanned(i, Size) == IF i < Size THEN i + 1 ELSE Size

\* for (size_t i = 0; i < Size; ++i) NewData[i] = Data[i];
RECURSIVE CopyLoop(_, _, _, _)
CopyLoop(NewData, Data, Size, i) ==
  IF i < Size
  THEN CopyLoop([NewData EXCEPT ![i + 1] = Data[i + 1]], Data, Size, i + 1)
  ELSE NewData

\* void Resize(size_t NewCapacity)
TArray_Resize(a, NewCapacity) ==
  [Data |-> CopyLoop([k \in 1..NewCapacity |-> Indeterminate], a.Data, a.Size, 0),
   Capacity |-> NewCapacity,
   Size |-> a.Size]

\* A faulty variant: linear growth.
GrowByOne(Capacity) == Capacity + 1
\* Capacity == 0 ? 1 : Capacity * 2
Grown(Capacity) == IF Capacity = 0 THEN 1 ELSE Capacity * 2

\* A faulty variant: every Add reallocates.
TArray_AddAlwaysGrows(a, Element) ==
  LET b == TArray_Resize(a, Grown(a.Capacity))
  IN [b EXCEPT !.Data[b.Size + 1] = Element, !.Size = b.Size + 1]
\* void Add(const T& Element)
TArray_Add(a, Element) ==
  LET b == IF a.Size = a.Capacity THEN TArray_Resize(a, Grown(a.Capacity)) ELSE a
  IN [b EXCEPT !.Data[b.Size + 1] = Element, !.Size = b.Size + 1]

\* for (size_t i = Index; i < Size - 1; ++i) Data[i] = Data[i + 1];
RECURSIVE ShiftLoop(_, _, _)
ShiftLoop(Data, Size, i) ==
  IF i < Size - 1
  THEN ShiftLoop([Data EXCEPT ![i + 1] = Data[i + 2]], Size, i + 1)
  ELSE Data

\* A faulty variant: the buffer is halved once it is half empty.
TArray_RemoveAtShrinks(a, Index) ==
  IF Index >= a.Size THEN a
  ELSE LET b == [a EXCEPT !.Data = ShiftLoop(a.Data, a.Size, Index), !.Size = a.Size - 1]
       IN IF b.Size * 2 <= b.Capacity /\ b.Capacity > 1
          THEN TArray_Resize(b, b.Capacity \div 2) ELSE b
\* A faulty variant: the shift starts one slot late.
TArray_RemoveAtShiftsFromNext(a, Index) ==
  IF Index >= a.Size THEN a
  ELSE [a EXCEPT !.Data = ShiftLoop(a.Data, a.Size, Index + 1), !.Size = a.Size - 1]
\* void RemoveAt(size_t Index): a bad index is reported and ignored
TArray_RemoveAt(a, Index) ==
  IF Index >= a.Size THEN a
  ELSE [a EXCEPT !.Data = ShiftLoop(a.Data, a.Size, Index), !.Size = a.Size - 1]

\* std::cerr << "Index out of range" in RemoveAt
TArray_RemoveAt_cerr(a, Index) == IF Index >= a.Size THEN "Index out of range" ELSE ""

\* size_t Num() const / size_t GetCapacity() const
TArray_Num(a) == a.Size
TArray_GetCapacity(a) == a.Capacity

\* The list without its element at (0-based) index i.
WithoutIndex(l, i) == SubSeq(l, 1, i) \o SubSeq(l, i + 2, Len(l))

\* MyArray.Add(e);
ArrayAdd(e) ==
  /\ ~exited /\ ~heap.arr.destroyed
  /\ arr.Size < MaxSize
  /\ arr' = TArray_Add(arr, e)
  /\ heap' = [heap EXCEPT !.arr = HeapCall(@, arr, arr', 0, arr.Size + 1)]
  /\ absList' = Append(absList, e)
  /\ last' = IF arr.Size = arr.Capacity THEN "array.Add/grow" ELSE "array.Add"
  /\ cerr' = ""
  /\ ret' = Void
  /\ UNCHANGED <<arrRemoved, exited>>
  /\ UNCHANGED NotArray

\* MyArray.RemoveAt(Index);
ArrayRemoveAt(Index) ==
  /\ ~exited /\ ~heap.arr.destroyed
  /\ arr' = TArray_RemoveAt(arr, Index)
  /\ heap' = [heap EXCEPT !.arr =
                HeapCall(@, arr, arr', IF Index + 1 < arr.Size THEN arr.Size ELSE 0, 0)]
  /\ absList' = IF Index < Len(absList) THEN WithoutIndex(absList, Index) ELSE absList
  /\ arrRemoved' = (arrRemoved \/ Index < Len(absList))
  /\ last' = IF Index >= arr.Size THEN "array.RemoveAt/outOfRange" ELSE "array.RemoveAt"
  /\ cerr' = TArray_RemoveAt_cerr(arr, Index)
  /\ ret' = Void
  /\ UNCHANGED exited
  /\ UNCHANGED NotArray

\* A faulty variant: the bound checked is the capacity of the buffer.
TArray_atChecksCapacity(a, Index) ==
  IF Index >= a.Capacity
  THEN [exit |-> TRUE, cerr |-> "Index out of range", ret |-> Void]
  ELSE [exit |-> FALSE, cerr |-> "", ret |-> a.Data[Index + 1]]
\* T& operator[](size_t Index): a bad index is reported and ends the process
TArray_at(a, Index) ==
  IF Index >= a.Size
  THEN [exit |-> TRUE, cerr |-> "Index out of range", ret |-> Void]
  ELSE [exit |-> FALSE, cerr |-> "", ret |-> a.Data[Index + 1]]

\* x = MyArray[Index];
ArrayAt(Index) ==
  /\ ~exited /\ ~heap.arr.destroyed
  /\ LET r == TArray_at(arr, Index)
     IN /\ exited' = r.exit
        /\ cerr' = r.cerr
        /\ ret' = r.ret
  /\ heap' = [heap EXCEPT !.arr =
                HeapCall(@, arr, arr, 0, IF Index < arr.Size THEN Index + 1 ELSE 0)]
  /\ last' = "array.at"
  /\ UNCHANGED arrayVars
  /\ UNCHANGED NotArray

\* ~TArray(): the TArray goes out of scope
ArrayDestroy ==
  /\ ~exited /\ ~heap.arr.destroyed
  /\ heap' = [heap EXCEPT !.arr = Heap_destroy(@)]
  /\ last' = "array.destroy"
  /\ cerr' = ""
  /\ ret' = Void
  /\ UNCHANGED exited
  /\ UNCHANGED arrayVars
  /\ UNCHANGED NotArray

\* ----------------------------------------------------------------- TMap
\* Pair() : Key(), Value() {}  -- what `new Pair[n]` fills the buffer with
DefaultKey == 0
DefaultValue == 0
Pair(Key, Value) == [Key |-> Key, Value |-> Value]

\* for (i = 0; i < Size; ++i) if (Data[i].Key == Key): the first such i, or
\* Size when the loop ends without a match
RECURSIVE FindKey(_, _, _, _)
FindKey(Data, Size, Key, i) ==
  IF i < Size
  THEN IF Data[i + 1].Key = Key THEN i ELSE FindKey(Data, Size, Key, i + 1)
  ELSE Size

\* void Resize(size_t NewCapacity)
TMap_Resize(m, NewCapacity) ==
  [Data |-> CopyLoop([k \in 1..NewCapacity |-> Pair(DefaultKey, DefaultValue)],
                     m.Data, m.Size, 0),
   Capacity |-> NewCapacity,
   Size |-> m.Size]

\* A faulty variant: no scan for the key, always an append.
TMap_AddAppends(m, Key, Value) ==
  LET b == IF m.Size = m.Capacity THEN TMap_Resize(m, Grown(m.Capacity)) ELSE m
  IN [b EXCEPT !.Data[b.Size + 1] = Pair(Key, Value), !.Size = b.Size + 1]
\* void Add(const K& Key, const V& Value)
TMap_Add(m, Key, Value) ==
  LET i == FindKey(m.Data, m.Size, Key, 0)
  IN IF i < m.Size
     THEN [m EXCEPT !.Data[i + 1].Value = Value]
     ELSE LET b == IF m.Size = m.Capacity
                   THEN TMap_Resize(m, Grown(m.Capacity)) ELSE m
          IN [b EXCEPT !.Data[b.Size + 1] = Pair(Key, Value), !.Size = b.Size + 1]

\* A faulty variant: the last pair is moved into the hole.
TMap_RemoveSwapsLast(m, Key) ==
  LET i == FindKey(m.Data, m.Size, Key, 0)
  IN IF i < m.Size
     THEN [m EXCEPT !.Data[i + 1] = m.Data[m.Size], !.Size = m.Size - 1]
     ELSE m
\* void Remove(const K& Key): a missing key is reported and ignored
TMap_Remove(m, Key) ==
  LET i == FindKey(m.Data, m.Size, Key, 0)
  IN IF i < m.Size
     THEN [m EXCEPT !.Data = ShiftLoop(m.Data, m.Size, i), !.Size = m.Size - 1]
     ELSE m

\* V& operator[](const K& Key), for a key that is present
TMap_at(m, Key) == m.Data[FindKey(m.Data, m.Size, Key, 0) + 1].Value
TMap_has(m, Key) == FindKey(m.Data, m.Size, Key, 0) < m.Size

\* std::cerr << "Key not found" in Remove
TMap_Remove_cerr(m, Key) == IF TMap_has(m, Key) THEN "" ELSE "Key not found"

\* V& operator[](const K& Key): a missing key is reported and ends the process
TMap_lookup(m, Key) ==
  IF TMap_has(m, Key)
  THEN [exit |-> FALSE, cerr |-> "", ret |-> TMap_at(m, Key)]
  ELSE [exit |-> TRUE, cerr |-> "Key not found", ret |-> Void]

\* MyMap.Add(k, v);
MapAdd(k, v) ==
  /\ ~exited /\ ~heap.map.destroyed
  /\ map' = TMap_Add(map, k, v)
  /\ heap' = [heap EXCEPT !.map =
                HeapCall(@, map, map',
                         Scanned(FindKey(map.Data, map.Size, k, 0), map.Size),
                         IF TMap_has(map, k) THEN 0 ELSE map.Size + 1)]
  /\ last' = IF TMap_has(map, k) THEN "map.Add/update" ELSE "map.Add/insert"
  /\ cerr' = ""
  /\ ret' = Void
  /\ UNCHANGED exited
  /\ UNCHANGED NotMap

\* MyMap.Remove(k);
MapRemove(k) ==
  /\ ~exited /\ ~heap.map.destroyed
  /\ map' = TMap_Remove(map, k)
  /\ heap' = [heap EXCEPT !.map = HeapCall(@, map, map', map.Size, 0)]
  /\ last' = IF TMap_has(map, k) THEN "map.Remove" ELSE "map.Remove/notFound"
  /\ cerr' = TMap_Remove_cerr(map, k)
  /\ ret' = Void
  /\ UNCHANGED exited
  /\ UNCHANGED NotMap

\* x = MyMap[k];
MapAt(k) ==
  /\ ~exited /\ ~heap.map.destroyed
  /\ LET r == TMap_lookup(map, k)
     IN /\ exited' = r.exit
        /\ cerr' = r.cerr
        /\ ret' = r.ret
  /\ heap' = [heap EXCEPT !.map =
                HeapCall(@, map, map,
                         Scanned(FindKey(map.Data, map.Size, k, 0), map.Size), 0)]
  /\ last' = "map.at"
  /\ UNCHANGED map
  /\ UNCHANGED NotMap

\* ~TMap(): the TMap goes out of scope
MapDestroy ==
  /\ ~exited /\ ~heap.map.destroyed
  /\ heap' = [heap EXCEPT !.map = Heap_destroy(@)]
  /\ last' = "map.destroy"
  /\ cerr' = ""
  /\ ret' = Void
  /\ UNCHANGED <<map, exited>>
  /\ UNCHANGED NotMap

\* ----------------------------------------------------------------- TSet
\* for (i = 0; i < Size; ++i) if (Data[i] == Element): the first such i, or
\* Size when the loop ends without a match
RECURSIVE FindElement(_, _, _, _)
FindElement(Data, Size, Element, i) ==
  IF i < Size
  THEN IF Data[i + 1] = Element THEN i ELSE FindElement(Data, Size, Element, i + 1)
  ELSE Size

\* bool Contains(const T& Element) const
TSet_Contains(s, Element) == FindElement(s.Data, s.Size, Element, 0) < s.Size

\* void Resize(size_t NewCapacity)
TSet_Resize(s, NewCapacity) ==
  [Data |-> CopyLoop([k \in 1..NewCapacity |-> Indeterminate], s.Data, s.Size, 0),
   Capacity |-> NewCapacity,
   Size |-> s.Size]

\* A faulty variant: no duplicate check.
TSet_AddAppends(s, Element) ==
  LET b == IF s.Size = s.Capacity THEN TSet_Resize(s, Grown(s.Capacity)) ELSE s
  IN [b EXCEPT !.Data[b.Size + 1] = Element, !.Size = b.Size + 1]
\* A faulty variant: a duplicate is moved to the end.
TSet_AddMovesToEnd(s, Element) ==
  LET i == FindElement(s.Data, s.Size, Element, 0)
      r == IF i < s.Size
           THEN [s EXCEPT !.Data = ShiftLoop(s.Data, s.Size, i), !.Size = s.Size - 1]
           ELSE s
      b == IF r.Size = r.Capacity THEN TSet_Resize(r, Grown(r.Capacity)) ELSE r
  IN [b EXCEPT !.Data[b.Size + 1] = Element, !.Size = b.Size + 1]
\* void Add(const T& Element)
TSet_Add(s, Element) ==
  IF TSet_Contains(s, Element) THEN s
  ELSE LET b == IF s.Size = s.Capacity
                THEN TSet_Resize(s, Grown(s.Capacity)) ELSE s
       IN [b EXCEPT !.Data[b.Size + 1] = Element, !.Size = b.Size + 1]

\* A faulty variant: a missing element removes the last one.
TSet_RemoveDropsLast(s, Element) ==
  LET i == FindElement(s.Data, s.Size, Element, 0)
  IN IF i < s.Size
     THEN [s EXCEPT !.Data = ShiftLoop(s.Data, s.Size, i), !.Size = s.Size - 1]
     ELSE IF s.Size > 0 THEN [s EXCEPT !.Size = s.Size - 1] ELSE s
\* A faulty variant: the last element is moved into the freed position.
TSet_RemoveSwapsLast(s, Element) ==
  LET i == FindElement(s.Data, s.Size, Element, 0)
  IN IF i < s.Size
     THEN [s EXCEPT !.Data = [s.Data EXCEPT ![i + 1] = s.Data[s.Size]],
                    !.Size = s.Size - 1]
     ELSE s

\* void Remove(const T& Element): a missing element is reported and ignored
TSet_Remove(s, Element) ==
  LET i == FindElement(s.Data, s.Size, Element, 0)
  IN IF i < s.Size
     THEN [s EXCEPT !.Data = ShiftLoop(s.Data, s.Size, i), !.Size = s.Size - 1]
     ELSE s

\* std::cerr << "Element not found" in Remove
TSet_Remove_cerr(s, Element) ==
  IF TSet_Contains(s, Element) THEN "" ELSE "Element not found"

\* The elements of a list, and the list without the value x.
Range(l) == {l[k] : k \in 1..Len(l)}
Without(l, x) == SelectSeq(l, LAMBDA y : y # x)

\* MySet.Add(x);
SetAdd(x) ==
  /\ ~exited /\ ~heap.set.destroyed
  /\ set' = TSet_Add(set, x)
  /\ heap' = [heap EXCEPT !.set =
                HeapCall(@, set, set',
                         Scanned(FindElement(set.Data, set.Size, x, 0), set.Size),
                         IF TSet_Contains(set, x) THEN 0 ELSE set.Size + 1)]
  /\ absSet' = IF x \in Range(absSet) THEN absSet ELSE Append(absSet, x)
  /\ last' = IF TSet_Contains(set, x) THEN "set.Add/duplicate" ELSE "set.Add"
  /\ cerr' = ""
  /\ ret' = Void
  /\ UNCHANGED exited
  /\ UNCHANGED NotSet

\* MySet.Remove(x);
SetRemove(x) ==
  /\ ~exited /\ ~heap.set.destroyed
  /\ set' = TSet_Remove(set, x)
  /\ heap' = [heap EXCEPT !.set = HeapCall(@, set, set', set.Size, 0)]
  /\ absSet' = Without(absSet, x)
  /\ last' = IF TSet_Contains(set, x) THEN "set.Remove" ELSE "set.Remove/notFound"
  /\ cerr' = TSet_Remove_cerr(set, x)
  /\ ret' = Void
  /\ UNCHANGED exited
  /\ UNCHANGED NotSet

\* A C++ bool as the int it converts to.
BoolAsInt(b) == IF b THEN 1 ELSE 0

\* b = MySet.Contains(x);
SetContains(x) ==
  /\ ~exited /\ ~heap.set.destroyed
  /\ ret' = BoolAsInt(TSet_Contains(set, x))
  /\ heap' = [heap EXCEPT !.set =
                HeapCall(@, set, set,
                         Scanned(FindElement(set.Data, set.Size, x, 0), set.Size), 0)]
  /\ last' = "set.Contains"
  /\ cerr' = ""
  /\ UNCHANGED exited
  /\ UNCHANGED setVars
  /\ UNCHANGED NotSet

\* ~TSet(): the TSet goes out of scope
SetDestroy ==
  /\ ~exited /\ ~heap.set.destroyed
  /\ heap' = [heap EXCEPT !.set = Heap_destroy(@)]
  /\ last' = "set.destroy"
  /\ cerr' = ""
  /\ ret' = Void
  /\ UNCHANGED exited
  /\ UNCHANGED setVars
  /\ UNCHANGED NotSet

\* ---------------------------------------------------------------- TPair
\* TPair(const KeyType& InKey, const ValueType& InValue); TPair() for int, int
TPair(InKey, InValue) == [Key |-> InKey, Value |-> InValue]
TPair_default == TPair(0, 0)

\* operator==, !=, <, >, <=, >= as the class defines them
TPair_eq(a, b) == a.Key = b.Key /\ a.Value = b.Value
TPair_ne(a, b) == ~TPair_eq(a, b)
\* A faulty variant: the value does not break a tie of the keys.
TPair_ltKeyOnly(a, b) == a.Key < b.Key
TPair_lt(a, b) == a.Key < b.Key \/ (a.Key = b.Key /\ a.Value < b.Value)
TPair_gt(a, b) == TPair_lt(b, a)
TPair_le(a, b) == ~TPair_lt(b, a)
TPair_ge(a, b) == ~TPair_lt(a, b)

NotCompared ==
  [done |-> FALSE, eq |-> FALSE, ne |-> FALSE, lt |-> FALSE,
   gt |-> FALSE, le |-> FALSE, ge |-> FALSE]

\* TPair<int, int> a(k, v);
PairConstructA(k, v) ==
  /\ pa' = TPair(k, v)
  /\ cmp' = NotCompared
  /\ last' = "pair.a"
  /\ UNCHANGED pb
  /\ UNCHANGED NotPair

\* TPair<int, int> b(k, v);
PairConstructB(k, v) ==
  /\ pb' = TPair(k, v)
  /\ cmp' = NotCompared
  /\ last' = "pair.b"
  /\ UNCHANGED pa
  /\ UNCHANGED NotPair

\* a == b; a != b; a < b; a > b; a <= b; a >= b;
PairCompare ==
  /\ cmp' = [done |-> TRUE,
             eq |-> TPair_eq(pa, pb), ne |-> TPair_ne(pa, pb),
             lt |-> TPair_lt(pa, pb), gt |-> TPair_gt(pa, pb),
             le |-> TPair_le(pa, pb), ge |-> TPair_ge(pa, pb)]
  /\ last' = "pair.compare"
  /\ UNCHANGED <<pa, pb>>
  /\ UNCHANGED NotPair

\* ----------------------------------------------------------- TStaticPtr
\* `new T(args...)` of type t: the next fresh object of that type.
UnusedStaticObjs(t) == {o \in StaticObjs : sobj[t][o] = "none"}
FreshStaticObj(t) == CHOOSE o \in UnusedStaticObjs(t) : \A q \in UnusedStaticObjs(t) : o <= q

\* A faulty variant: the previous instance is overwritten, not deleted.
installLeaks(inst, ob, rawPtr) == [instance |-> rawPtr, sobj |-> ob]
\* if (instance != nullptr) { delete instance; } instance = rawPtr;
install(inst, ob, rawPtr) ==
  [instance |-> rawPtr, sobj |-> IF inst # NullPtr THEN Delete(ob, inst) ELSE ob]

\* static T* get()
TStaticPtr_get(t) == instance[t]

\* The argument: nullptr, or a newly allocated object now alive.
StaticArg(t, fresh) == IF fresh THEN FreshStaticObj(t) ELSE NullPtr
StaticAllocated(t, fresh) ==
  IF fresh THEN NewObj(sobj[t], FreshStaticObj(t)) ELSE sobj[t]

\* TStaticPtr() = default;
TStaticPtr_default(t) ==
  /\ sh[t] < NStatic
  /\ sh' = [sh EXCEPT ![t] = @ + 1]
  /\ last' = "static.default"
  /\ UNCHANGED <<instance, sobj>>
  /\ UNCHANGED NotStatic

\* explicit TStaticPtr(T* rawPtr)
TStaticPtr_raw(t, fresh) ==
  /\ sh[t] < NStatic
  /\ fresh => UnusedStaticObjs(t) # {}
  /\ LET r == install(instance[t], StaticAllocated(t, fresh), StaticArg(t, fresh))
     IN /\ instance' = [instance EXCEPT ![t] = r.instance]
        /\ sobj' = [sobj EXCEPT ![t] = r.sobj]
  /\ sh' = [sh EXCEPT ![t] = @ + 1]
  /\ last' = "static.raw"
  /\ UNCHANGED NotStatic

\* A faulty variant: only the last instance of a type clears the slot.
TStaticPtr_destroyLastOnly(t) ==
  /\ sh[t] > 0
  /\ LET r == IF sh[t] = 1 THEN install(instance[t], sobj[t], NullPtr)
              ELSE [instance |-> instance[t], sobj |-> sobj[t]]
     IN /\ instance' = [instance EXCEPT ![t] = r.instance]
        /\ sobj' = [sobj EXCEPT ![t] = r.sobj]
  /\ sh' = [sh EXCEPT ![t] = @ - 1]
  /\ last' = "static.destroy"
  /\ UNCHANGED NotStatic
\* ~TStaticPtr(): if (instance != nullptr) { delete instance; instance = nullptr; }
TStaticPtr_destroy(t) ==
  /\ sh[t] > 0
  /\ LET r == install(instance[t], sobj[t], NullPtr)
     IN /\ instance' = [instance EXCEPT ![t] = r.instance]
        /\ sobj' = [sobj EXCEPT ![t] = r.sobj]
  /\ sh' = [sh EXCEPT ![t] = @ - 1]
  /\ last' = "static.destroy"
  /\ UNCHANGED NotStatic

\* static void reset(T* rawPtr = nullptr)
TStaticPtr_reset(t, fresh) ==
  /\ fresh => UnusedStaticObjs(t) # {}
  /\ LET r == install(instance[t], StaticAllocated(t, fresh), StaticArg(t, fresh))
     IN /\ instance' = [instance EXCEPT ![t] = r.instance]
        /\ sobj' = [sobj EXCEPT ![t] = r.sobj]
  /\ last' = "static.reset"
  /\ UNCHANGED sh
  /\ UNCHANGED NotStatic

\* ----------------------------------------------------- specifications
Init ==
  /\ sp = [i \in SharedIds |-> DeadHandle]
  /\ wp = [w \in WeakIds |-> DeadHandle]
  /\ cell = [c \in Cells |-> [alloc |-> FALSE, val |-> 0]]
  /\ obj = [o \in Objs |-> "none"]
  /\ uaf = FALSE
  /\ up = [i \in UniqueIds |-> [live |-> FALSE, ptr |-> NullPtr]]
  /\ raw = {}
  /\ arr = [Data |-> <<>>, Capacity |-> 0, Size |-> 0]
  /\ absList = <<>>
  /\ arrRemoved = FALSE
  /\ map = [Data |-> <<>>, Capacity |-> 0, Size |-> 0]
  /\ set = [Data |-> <<>>, Capacity |-> 0, Size |-> 0]
  /\ absSet = <<>>
  /\ heap = [arr |-> NoBuffers, map |-> NoBuffers, set |-> NoBuffers]
  /\ exited = FALSE
  /\ ret = Void
  /\ cerr = ""
  /\ pa = TPair_default
  /\ pb = TPair_default
  /\ cmp = NotCompared
  /\ instance = [t \in Types |-> NullPtr]
  /\ sobj = [t \in Types |-> [o \in StaticObjs |-> "none"]]
  /\ sh = [t \in Types |-> 0]
  /\ last = "init"

SharedNext ==
  \/ \E i \in SharedIds : TSharedPointer_default(i)
  \/ \E i \in SharedIds, fresh \in BOOLEAN : TSharedPointer_raw(i, fresh)
  \/ \E i, j \in SharedIds : TSharedPointer_rawCounter(i, j)
  \/ \E i, j \in SharedIds : TSharedPointer_copy(i, j)
  \/ \E i, j \in SharedIds : TSharedPointer_move(i, j)
  \/ \E i, j \in SharedIds : TSharedPointer_assign(i, j)
  \/ \E i, j \in SharedIds : TSharedPointer_moveAssign(i, j)
  \/ \E i \in SharedIds : TSharedPointer_destroy(i)
  \/ \E i, j \in SharedIds : TSharedPointer_swap(i, j)
  \/ \E i \in SharedIds, fresh \in BOOLEAN : TSharedPointer_reset(i, fresh)

WeakNext ==
  \/ SharedNext
  \/ \E w \in WeakIds : TWeakPointer_default(w)
  \/ \E w \in WeakIds, j \in SharedIds : TWeakPointer_fromShared(w, j)
  \/ \E w \in WeakIds : TWeakPointer_destroy(w)
  \/ \E w \in WeakIds, i \in SharedIds : TWeakPointer_lock(w, i)

\* Weak handles that are only constructed and destroyed, never locked.
WeakRefNext ==
  \/ SharedNext
  \/ \E w \in WeakIds : TWeakPointer_default(w)
  \/ \E w \in WeakIds, j \in SharedIds : TWeakPointer_fromShared(w, j)
  \/ \E w \in WeakIds : TWeakPointer_destroy(w)

UniqueNext ==
  \/ \E i \in UniqueIds : TUniquePtr_default(i)
  \/ \E i \in UniqueIds : \E p \in RawArgs : TUniquePtr_raw(i, p)
  \/ \E i, j \in UniqueIds : TUniquePtr_move(i, j)
  \/ \E i, j \in UniqueIds : TUniquePtr_moveAssign(i, j)
  \/ \E i \in UniqueIds : TUniquePtr_destroy(i)
  \/ \E i \in UniqueIds : TUniquePtr_release(i)
  \/ \E i \in UniqueIds : \E p \in RawArgs : TUniquePtr_reset(i, p)
  \/ \E p \in Objs : CallerDelete(p)

ArrayNext ==
  \/ \E e \in Vals : ArrayAdd(e)
  \/ \E Index \in Indices : ArrayRemoveAt(Index)
  \/ ArrayDestroy

MapNext ==
  \/ \E k \in Keys, v \in MapVals : MapAdd(k, v)
  \/ \E k \in Keys : MapRemove(k)
  \/ MapDestroy

SetNext ==
  \/ \E x \in SetElems : SetAdd(x)
  \/ \E x \in SetElems : SetRemove(x)
  \/ \E x \in SetElems : SetContains(x)
  \/ SetDestroy

PairNext ==
  \/ \E k \in PairKeys, v \in PairVals : PairConstructA(k, v)
  \/ \E k \in PairKeys, v \in PairVals : PairConstructB(k, v)
  \/ PairCompare

StaticNext ==
  \/ \E t \in Types : TStaticPtr_default(t)
  \/ \E t \in Types, fresh \in BOOLEAN : TStaticPtr_raw(t, fresh)
  \/ \E t \in Types : TStaticPtr_destroy(t)
  \/ \E t \in Types, fresh \in BOOLEAN : TStaticPtr_reset(t, fresh)

\* The three containers are separate objects and no operation of one reads
\* or writes another: their programs are explored one container at a time,
\* operator[] included.
Untouched(c, h) == c.Capacity = 0 /\ ~h.destroyed
UsesArray == Untouched(map, heap.map) /\ Untouched(set, heap.set)
UsesMap == Untouched(arr, heap.arr) /\ Untouched(set, heap.set)
UsesSet == Untouched(arr, heap.arr) /\ Untouched(map, heap.map)
ContainersNext ==
  \/ \E e \in Vals : UsesArray /\ ArrayAdd(e)
  \/ \E Index \in Indices : UsesArray /\ ArrayRemoveAt(Index)
  \/ \E Index \in Indices : UsesArray /\ ArrayAt(Index)
  \/ \E k \in Keys, v \in MapVals : UsesMap /\ MapAdd(k, v)
  \/ \E k \in Keys : UsesMap /\ MapRemove(k)
  \/ \E k \in Keys : UsesMap /\ MapAt(k)
  \/ \E x \in SetElems : UsesSet /\ SetAdd(x)
  \/ \E x \in SetElems : UsesSet /\ SetRemove(x)
  \/ \E x \in SetElems : UsesSet /\ SetContains(x)
  \/ UsesArray /\ ArrayDestroy
  \/ UsesMap /\ MapDestroy
  \/ UsesSet /\ SetDestroy

SpecShared == Init /\ [][SharedNext]_vars
SpecWeak == Init /\ [][WeakNext]_vars
SpecWeakRef == Init /\ [][WeakRefNext]_vars
SpecUnique == Init /\ [][UniqueNext]_vars
SpecArray == Init /\ [][ArrayNext]_vars
SpecMap == Init /\ [][MapNext]_vars
SpecSet == Init /\ [][SetNext]_vars
SpecPair == Init /\ [][PairNext]_vars
SpecStatic == Init /\ [][StaticNext]_vars
SpecContainers == Init /\ [][ContainersNext]_vars

\* ------------------------------------------------------------- claims
\* The step is a call of one of the operations named: every operation
\* records its name, and the branch it took, in last.
CallOf(names) == last' \in names

Aliases(o) == {i \in SharedIds : sp[i].live /\ sp[i].ptr = o}
CellAliases(c) == {i \in SharedIds : sp[i].live /\ sp[i].refCount = c}

\* C1: a target placed under a Shared Handle is never destroyed twice, is
\* live exactly as long as some live Shared Handle aliases it, and so is
\* destroyed at the very step in which its last alias is destroyed, reset
\* or reassigned (copy, move, assign, swap, reset, destroy; no lock()).
C1_TargetLivesWithLastAlias ==
  \A o \in Objs :
    /\ obj[o] # "destroyedTwice"
    /\ obj[o] = "live" <=> Aliases(o) # {}
    /\ obj[o] = "none" => Aliases(o) = {}

\* sp1 and sp2 are gone, sp3 alone still holds the first object, alive.
C1_Witness ==
  /\ last = "destroy"
  /\ ~sp[1].live /\ ~sp[2].live
  /\ sp[3].live /\ sp[3].ptr = 1 /\ obj[1] = "live"
  /\ cell[sp[3].refCount].val = 1

\* C2: the counter of every cell a live Shared Handle points to equals the
\* number of live Shared Handles pointing to that cell, lock() included.
C2_CounterEqualsAliases ==
  \A i \in SharedIds :
    sp[i].live /\ sp[i].refCount # NullPtr =>
      /\ cell[sp[i].refCount].alloc
      /\ cell[sp[i].refCount].val = Cardinality(CellAliases(sp[i].refCount))

\* C3: lock() on a Weak Handle whose target no live Shared Handle aliases
\* returns an empty handle, and lock() never returns a non-empty handle to
\* a target that is not alive.
C3_LockOnExpiredIsEmpty ==
  [][\A w \in WeakIds, i \in SharedIds :
       TWeakPointer_lock(w, i) =>
         /\ Aliases(wp[w].ptr) = {} => sp'[i].ptr = NullPtr
         /\ sp'[i].ptr # NullPtr => obj'[sp'[i].ptr] = "live"]_vars

Owners(o) == {i \in UniqueIds : up[i].live /\ up[i].ptr = o}

\* C4: at most one live Owning Handle references a given target; no target
\* is destroyed twice; and a step that destroys a target is a step of the
\* handle that referenced it (which no longer does), or the caller's delete
\* of a pointer release() handed over.
C4_SingleOwner ==
  /\ [](\A o \in Objs : Cardinality(Owners(o)) <= 1 /\ obj[o] # "destroyedTwice")
  /\ [][\A o \in Objs :
          obj[o] = "live" /\ obj'[o] # "live" =>
            \/ \E i \in Owners(o) : up'[i].ptr # o
            \/ o \in raw /\ last' = "caller.delete"]_vars

\* One handle owns a live object while another object was destroyed by a
\* reset or a move-assignment.
C4_Witness ==
  /\ last \in {"unique.reset", "unique.moveAssign", "unique.destroy"}
  /\ \E o \in Objs : obj[o] = "live" /\ Cardinality(Owners(o)) = 1
  /\ \E o \in Objs : obj[o] = "destroyed"

\* C5: after b = std::move(a) with a and b distinct (b is up[i], a is
\* up[j]): a is null, b references what a referenced, that object was not
\* destroyed, and what b referenced before was destroyed, once.
C5_MoveAssignTransfers ==
  [][\A i, j \in UniqueIds :
       i # j /\ TUniquePtr_moveAssign(i, j) =>
         /\ up'[j].live /\ up'[j].ptr = NullPtr
         /\ up'[i].live /\ up'[i].ptr = up[j].ptr
         /\ up[j].ptr # NullPtr => obj[up[j].ptr] = "live" /\ obj'[up[j].ptr] = "live"
         /\ up[i].ptr # NullPtr => obj[up[i].ptr] = "live" /\ obj'[up[i].ptr] = "destroyed"]_vars

\* up2 = std::move(up1) has run: up1 is null, up2 owns the first object and
\* the second object, which up2 owned, is destroyed.
C5_Witness ==
  /\ last = "unique.moveAssign"
  /\ up[1].live /\ up[1].ptr = NullPtr
  /\ up[2].live /\ up[2].ptr = 1
  /\ obj[1] = "live" /\ obj[2] = "destroyed"

\* C6: release() hands the pointer to the caller, leaves the handle null
\* and destroys nothing; an object the caller holds after release() stays
\* alive whatever happens to the handles, until the caller deletes it.
C6_ReleaseGivesUpOwnership ==
  /\ [][\A i \in UniqueIds :
          TUniquePtr_release(i) =>
            /\ up'[i].live /\ up'[i].ptr = NullPtr
            /\ obj' = obj
            /\ raw' = raw \cup ({up[i].ptr} \ {NullPtr})]_vars
  /\ [](\A o \in raw : obj[o] = "live" /\ Owners(o) = {})

\* Every handle has been destroyed after a release(), and the released
\* object is still alive in the caller's hands.
C6_Witness ==
  /\ last = "unique.destroy"
  /\ \A i \in UniqueIds : ~up[i].live
  /\ raw # {} /\ \A o \in raw : obj[o] = "live"

\* The logical contents [0, Num()) of the TArray.
Contents(a) == [k \in 1..a.Size |-> a.Data[k]]
Max(x, y) == IF x >= y THEN x ELSE y
RECURSIVE PowerOfTwoFrom(_, _)
PowerOfTwoFrom(p, n) == IF p >= n THEN p ELSE PowerOfTwoFrom(2 * p, n)
\* The smallest of 1, 2, 4, 8, ... that is >= n.
SmallestPowerOfTwoGE(n) == PowerOfTwoFrom(1, n)

\* C7: 0 <= Num() <= GetCapacity() in every state of a TArray driven by Add
\* and RemoveAt, and an Add issued while Num() < GetCapacity() leaves
\* GetCapacity() unchanged.
C7_SizeWithinCapacity ==
  /\ [](0 <= TArray_Num(arr) /\ TArray_Num(arr) <= TArray_GetCapacity(arr)
        /\ Len(arr.Data) = TArray_GetCapacity(arr))
  /\ [][\A e \in Vals :
          ArrayAdd(e) /\ TArray_Num(arr) < TArray_GetCapacity(arr) =>
            TArray_GetCapacity(arr') = TArray_GetCapacity(arr)]_vars

\* An Add that found room: the third element went into a buffer of four.
C7_Witness ==
  /\ last = "array.Add"
  /\ TArray_Num(arr) = 3 /\ TArray_GetCapacity(arr) = 4

\* C8: after n >= 1 Adds and no removal the capacity is the smallest power
\* of two >= n; and the capacity changes only in an Add issued at
\* size == capacity, to max(1, 2 * capacity).
C8_GrowthLaw ==
  /\ [](~arrRemoved /\ TArray_Num(arr) >= 1 =>
          TArray_GetCapacity(arr) = SmallestPowerOfTwoGE(TArray_Num(arr)))
  /\ [][TArray_GetCapacity(arr') # TArray_GetCapacity(arr) =>
          /\ \E e \in Vals : ArrayAdd(e)
          /\ TArray_Num(arr) = TArray_GetCapacity(arr)
          /\ TArray_GetCapacity(arr') = Max(1, 2 * TArray_GetCapacity(arr))]_vars

\* Five Adds and no removal: the fifth grew the buffer from 4 to 8.
C8_Witness ==
  /\ last = "array.Add/grow"
  /\ ~arrRemoved
  /\ TArray_Num(arr) = 5 /\ TArray_GetCapacity(arr) = 8

\* C9: the logical contents are the abstract list at every step: Add(v)
\* appends v and keeps what was there, also across a reallocation, and
\* RemoveAt(i) with i < Num() deletes exactly the element at i, keeping the
\* order of the others.
C9_ContentsTrackList ==
  /\ [](Contents(arr) = absList)
  /\ [][\A e \in Vals :
          ArrayAdd(e) => Contents(arr') = Append(Contents(arr), e)]_vars
  /\ [][\A i \in Indices :
          ArrayRemoveAt(i) /\ i < TArray_Num(arr) =>
            /\ Contents(arr') = WithoutIndex(Contents(arr), i)
            /\ TArray_Num(arr') = TArray_Num(arr) - 1]_vars

\* Six Adds (the buffer holds 8) and RemoveAt(2) of <<1, 2, 1, 2, 1, 2>>.
C9_Witness ==
  /\ last = "array.RemoveAt"
  /\ TArray_GetCapacity(arr) = 8
  /\ Contents(arr) = <<1, 2, 2, 1, 2>>
  /\ arr.Data[6] = 2

\* The keys at positions [0, Num()) of the TMap, in storage order.
StoredKeys(m) == [k \in 1..m.Size |-> m.Data[k].Key]

\* C10: Map.Add(k, v) with k present overwrites the value of k and inserts
\* nothing: Num(), GetCapacity() and the stored keys are unchanged,
\* map[k] == v afterwards, and every other key keeps its value.
C10_AddOverwrites ==
  [][\A k \in Keys, v \in MapVals :
       MapAdd(k, v) /\ TMap_has(map, k) =>
         /\ map'.Size = map.Size /\ map'.Capacity = map.Capacity
         /\ StoredKeys(map') = StoredKeys(map)
         /\ TMap_at(map', k) = v
         /\ \A k2 \in Keys \ {k} :
              TMap_has(map, k2) => TMap_at(map', k2) = TMap_at(map, k2)]_vars

\* Add(1, 1); Add(1, 2): one pair, holding the second value.
C10_Witness ==
  /\ last = "map.Add/update"
  /\ map.Size = 1 /\ map.Capacity = 1
  /\ TMap_has(map, 1) /\ TMap_at(map, 1) = 2

\* C11: the keys stored at positions [0, Num()) of a TMap are pairwise
\* distinct in every state reachable by Add and Remove.
C11_KeysDistinct ==
  \A i, j \in 1..map.Size : i # j => map.Data[i].Key # map.Data[j].Key

\* Every key is stored, and the last call was an Add of a key already there.
C11_Witness ==
  /\ last = "map.Add/update"
  /\ map.Size = Cardinality(Keys)
  /\ \A k \in Keys : TMap_has(map, k)

\* C12: Set.Add is idempotent: in every reachable state and for every x, a
\* second Add(x) right after Add(x) changes nothing (elements, order, Num(),
\* GetCapacity()) and Contains(x) is true; an Add step of an element already
\* in the set leaves the set as it was.
C12_AddIdempotent ==
  /\ [](\A x \in SetElems :
          LET once == TSet_Add(set, x)
          IN /\ TSet_Add(once, x) = once
             /\ TSet_Contains(once, x))
  /\ [][\A x \in SetElems :
          SetAdd(x) /\ TSet_Contains(set, x) => set' = set]_vars

\* Add(x); Add(x) on an empty set: Num() == 1 and Contains(x).
C12_Witness ==
  /\ last = "set.Add/duplicate"
  /\ set.Size = 1 /\ set.Capacity = 1
  /\ TSet_Contains(set, set.Data[1])

\* C13: the elements at [0, Num()) of a TSet are pairwise distinct and stand
\* in the order of their most recent successful insertion, unsorted, in
\* every state reachable by Add and Remove.
C13_DistinctInInsertionOrder ==
  /\ \A i, j \in 1..set.Size : i # j => set.Data[i] # set.Data[j]
  /\ Contents(set) = absSet

\* Three elements stored out of numeric order after a removal and a re-Add.
C13_Witness ==
  /\ last = "set.Add"
  /\ set.Size = 3 /\ set.Capacity > set.Size
  /\ set.Data[1] > set.Data[2] /\ set.Data[3] < set.Data[2]

\* The order and the equality the claim states for two Pairs.
KeyThenValueLess(a, b) == a.Key < b.Key \/ (a.Key = b.Key /\ a.Value < b.Value)
BothEqual(a, b) == a.Key = b.Key /\ a.Value = b.Value
ExactlyOne(x, y, z) ==
  /\ x \/ y \/ z
  /\ ~(x /\ y) /\ ~(x /\ z) /\ ~(y /\ z)

\* C14: for all Pairs a, b over bounded ordered keys and values: a < b iff
\* a.key < b.key or (a.key == b.key and a.value < b.value); a == b iff both
\* components are equal; exactly one of a < b, a == b, b < a holds; and >,
\* <=, >= and != agree with that order.
C14_PairOrder ==
  cmp.done =>
    /\ cmp.lt <=> KeyThenValueLess(pa, pb)
    /\ cmp.eq <=> BothEqual(pa, pb)
    /\ ExactlyOne(cmp.lt, cmp.eq, TPair_lt(pb, pa))
    /\ cmp.gt <=> KeyThenValueLess(pb, pa)
    /\ cmp.le <=> (KeyThenValueLess(pa, pb) \/ BothEqual(pa, pb))
    /\ cmp.ge <=> (KeyThenValueLess(pb, pa) \/ BothEqual(pa, pb))
    /\ cmp.ne <=> ~BothEqual(pa, pb)

\* Pair(1, "b") against Pair(2, "a"), the characters as their codes 1 and 0:
\* the smaller key wins over the larger value.
C14_Witness ==
  /\ cmp.done
  /\ pa = TPair(1, 1) /\ pb = TPair(2, 0)
  /\ cmp.lt /\ cmp.le /\ cmp.ne /\ ~cmp.gt /\ ~cmp.ge /\ ~cmp.eq

\* C15: in every reachable state of every Shared Handle, target == null if
\* and only if refcount == null, the null raw pointer included among the
\* constructor arguments.
C15_TargetNullIffCounterNull ==
  \A i \in SharedIds :
    sp[i].live => (sp[i].ptr = NullPtr <=> sp[i].refCount = NullPtr)

\* The positions below Num() at which a map stores key k.
PositionsOf(m, k) == {i \in 1..m.Size : m.Data[i].Key = k}

\* C16: a failed lookup ends the process and never returns: TArray
\* operator[](index) with index >= Num() (also below GetCapacity()) and TMap
\* operator[](key) with an absent key leave the terminated state, in which
\* no further step is taken, without modifying the container; with
\* index < Num() or a present key they return the stored element, do not
\* terminate and change nothing.
C16_FailedLookupTerminates ==
  [][/\ ~exited
     /\ \A Index \in Indices :
          CallOf({"array.at"}) /\ ArrayAt(Index) =>
            /\ arr' = arr
            /\ IF Index >= TArray_Num(arr)
               THEN exited' /\ ret' = Void
               ELSE ~exited' /\ ret' = Contents(arr)[Index + 1]
     /\ \A k \in Keys :
          CallOf({"map.at"}) /\ MapAt(k) =>
            /\ map' = map
            /\ IF PositionsOf(map, k) = {}
               THEN exited' /\ ret' = Void
               ELSE ~exited' /\ \E i \in PositionsOf(map, k) : ret' = map.Data[i].Value]_vars

\* operator[] has ended the process on a TArray that holds an element and
\* has room left in its buffer.
C16_Witness ==
  /\ exited
  /\ last = "array.at" /\ cerr = "Index out of range"
  /\ arr.Size >= 1 /\ arr.Size < arr.Capacity

\* C17: TArray RemoveAt(index) with index >= Num() reports to the
\* diagnostic stream and terminates the process: control does not return
\* to the caller.
C17_RemoveAtOutOfRangeTerminates ==
  [][\A Index \in Indices :
       ArrayRemoveAt(Index) /\ Index >= TArray_Num(arr) =>
         /\ cerr' = "Index out of range"
         /\ exited']_vars

\* C18: Map.Remove(key) with an absent key and Set.Remove(value) with an
\* absent element write a diagnostic and return to the caller: the process
\* does not terminate, and Num(), GetCapacity() and the stored contents are
\* unchanged.
C18_RemoveOfAbsentReturns ==
  [][/\ \A k \in Keys :
          CallOf({"map.Remove", "map.Remove/notFound"})
          /\ MapRemove(k) /\ PositionsOf(map, k) = {} =>
            /\ map' = map
            /\ cerr' = "Key not found"
            /\ ~exited'
     /\ \A x \in SetElems :
          CallOf({"set.Remove", "set.Remove/notFound"})
          /\ SetRemove(x) /\ x \notin Range(Contents(set)) =>
            /\ set' = set
            /\ cerr' = "Element not found"
            /\ ~exited']_vars

\* Remove of an absent element on a non-empty TSet has returned.
C18_Witness ==
  /\ last = "set.Remove/notFound" /\ cerr = "Element not found"
  /\ ~exited
  /\ set.Size >= 1

\* C19: for each instantiated type, after any sequence of TStaticPtr
\* constructions and resets with distinct (newly allocated) objects or
\* nullptr, get() returns the pointer installed last (null after reset()),
\* the object it replaces is destroyed in that very step, exactly once, no
\* other object is touched, and so the only live object of a type is the
\* installed one.
C19_StaticInstallReplaces ==
  /\ [](\A t \in Types, o \in StaticObjs :
          /\ sobj[t][o] # "destroyedTwice"
          /\ sobj[t][o] = "live" <=> TStaticPtr_get(t) = o)
  /\ [][\A t \in Types, fresh \in BOOLEAN :
          TStaticPtr_raw(t, fresh) \/ TStaticPtr_reset(t, fresh) =>
            LET old == instance[t]
                new == IF fresh THEN FreshStaticObj(t) ELSE NullPtr
            IN /\ instance'[t] = new
               /\ old # NullPtr =>
                    sobj[t][old] = "live" /\ sobj'[t][old] = "destroyed"
               /\ new # NullPtr => sobj'[t][new] = "live"
               /\ \A o \in StaticObjs \ {old, new} : sobj'[t][o] = sobj[t][o]
               /\ \A u \in Types \ {t} :
                    instance'[u] = instance[u] /\ sobj'[u] = sobj[u]]_vars

\* reset(new MyClass(10)); reset(new MyClass(20)): the first object is
\* destroyed, get() is the second.
C19_Witness ==
  /\ last = "static.reset"
  /\ TStaticPtr_get(1) = 2
  /\ sobj[1][1] = "destroyed" /\ sobj[1][2] = "live"

\* C20: the storage order of a TMap's keys is the insertion order: Add of
\* an absent key places it last, Add of a present key leaves every key
\* where it was, and Remove(k) keeps the relative order of the other keys.
C20_KeysInInsertionOrder ==
  [][/\ \A k \in Keys, v \in MapVals :
          MapAdd(k, v) =>
            StoredKeys(map') = IF PositionsOf(map, k) = {}
                               THEN Append(StoredKeys(map), k)
                               ELSE StoredKeys(map)
     /\ \A k \in Keys :
          MapRemove(k) => StoredKeys(map') = Without(StoredKeys(map), k)]_vars

\* Keys 0, 1, 2 added, 0 removed and added again: 0 now stands last.
C20_Witness ==
  /\ last = "map.Add/insert"
  /\ StoredKeys(map) = <<1, 2, 0>>

\* C21: GetCapacity() of a TArray, TMap or TSet never decreases: no Add,
\* RemoveAt/Remove or lookup step takes the capacity to a smaller value
\* (Contains and the other queries change no state at all).
C21_CapacityNeverDecreases ==
  [][/\ TArray_GetCapacity(arr') >= TArray_GetCapacity(arr)
     /\ map'.Capacity >= map.Capacity
     /\ set'.Capacity >= set.Capacity]_vars

\* A TArray emptied by RemoveAt that still has the capacity it grew to.
C21_Witness ==
  /\ last = "array.RemoveAt"
  /\ arr.Size = 0 /\ arr.Capacity >= 4

\* C22: a Weak Handle never owns: constructing or destroying Weak Handles
\* changes no counter, no object and no Shared Handle, and a live target is
\* destroyed at the very step that takes its last Shared Handle away,
\* whether or not Weak Handles still refer to it.
C22_WeakNeverOwns ==
  [][/\ \A w \in WeakIds :
          \/ TWeakPointer_default(w)
          \/ TWeakPointer_destroy(w)
          \/ \E j \in SharedIds : TWeakPointer_fromShared(w, j)
          => cell' = cell /\ obj' = obj /\ sp' = sp
     /\ \A o \in Objs :
          obj[o] = "live" /\ Aliases(o)' = {} => obj'[o] = "destroyed"]_vars

\* The last Shared Handle of the first object was destroyed while a Weak
\* Handle still refers to the object: the object is gone.
C22_Witness ==
  /\ last = "destroy"
  /\ \A i \in SharedIds : ~sp[i].live
  /\ wp[1].live /\ wp[1].ptr = 1
  /\ obj[1] = "destroyed"

\* What a = std::move(b) does to a and b, and to a's former target: b is
\* empty, a holds b's former pair, a's former counter is one less and a's
\* former target is destroyed if and only if a was its last owner.
MoveAssignTransfers(a, b) ==
  /\ sp'[b] = Handle(NullPtr, NullPtr)
  /\ sp'[a] = Handle(sp[b].ptr, sp[b].refCount)
  /\ sp[a].refCount # NullPtr =>
       IF cell[sp[a].refCount].val = 1
       THEN /\ ~cell'[sp[a].refCount].alloc
            /\ sp[a].ptr # NullPtr => obj'[sp[a].ptr] = "destroyed"
       ELSE /\ cell'[sp[a].refCount].alloc
            /\ cell'[sp[a].refCount].val = cell[sp[a].refCount].val - 1
            /\ obj' = obj

Sharers(i) ==
  IF sp[i].refCount = NullPtr THEN {} ELSE CellAliases(sp[i].refCount) \ {i}

\* C24: sp.reset(newPtr) on a Shared Handle that shares its target with
\* other live handles takes exactly one from the old counter, destroys
\* nothing, and gives sp the new object under a fresh counter of 1 in a
\* cell other than the old one; every other handle keeps its pair. reset()
\* without an argument leaves sp empty.
C24_ResetLeavesSharers ==
  [][\A i \in SharedIds :
       /\ CallOf({"resetNew", "resetNew/shared"}) /\ TSharedPointer_reset(i, TRUE)
          /\ Sharers(i) # {} =>
            LET old == sp[i].refCount
                new == sp'[i].refCount
            IN /\ cell'[old].alloc /\ cell'[old].val = cell[old].val - 1
               /\ \A o \in Objs : obj[o] # "none" => obj'[o] = obj[o]
               /\ new # NullPtr /\ new # old
               /\ cell'[new].alloc /\ cell'[new].val = 1 /\ ~cell[new].alloc
               /\ sp'[i].ptr # NullPtr /\ obj[sp'[i].ptr] = "none"
               /\ obj'[sp'[i].ptr] = "live"
               /\ \A k \in SharedIds \ {i} : sp'[k] = sp[k]
       /\ CallOf({"reset"}) /\ TSharedPointer_reset(i, FALSE) =>
            /\ sp'[i] = Handle(NullPtr, NullPtr)
            /\ \A k \in SharedIds \ {i} : sp'[k] = sp[k]]_vars

\* sp2 = sp1; sp1.reset(new T): sp1 holds the second object under a counter
\* of its own, sp2 still holds the first, both alive with count 1.
C24_Witness ==
  /\ last = "resetNew/shared"
  /\ sp[1].live /\ sp[1].ptr = 2 /\ sp[2].live /\ sp[2].ptr = 1
  /\ sp[1].refCount # sp[2].refCount
  /\ cell[sp[1].refCount].val = 1 /\ cell[sp[2].refCount].val = 1
  /\ obj[1] = "live" /\ obj[2] = "live"

StillOwned(w) ==
  /\ wp[w].ptr # NullPtr /\ wp[w].refCount # NullPtr
  /\ cell[wp[w].refCount].alloc
  /\ obj[wp[w].ptr] = "live"
  /\ \E k \in SharedIds :
       sp[k].live /\ sp[k].ptr = wp[w].ptr /\ sp[k].refCount = wp[w].refCount

C27_SetTracksAbstractSet ==
  /\ [](/\ \A x \in SetElems : TSet_Contains(set, x) <=> x \in Range(absSet)
        /\ set.Size = Cardinality(Range(absSet)))
  /\ [][\A x \in SetElems :
          /\ SetAdd(x) =>
               Range(Contents(set')) = Range(Contents(set)) \cup {x}
          /\ SetRemove(x) =>
               Range(Contents(set')) = Range(Contents(set)) \ {x}
          /\ SetRemove(x) /\ TSet_Contains(set, x) =>
               /\ set'.Size = set.Size - 1
               /\ Contents(set') = Without(Contents(set), x)]_vars

\* 1 has been removed from a set that held 1, 2 and 3; 2 and 3 remain, 2
\* before 3.
C27_Witness ==
  /\ last = "set.Remove"
  /\ set.Size = 2 /\ set.Capacity = 4
  /\ Contents(set) = <<2, 3>>
  /\ ~TSet_Contains(set, 1)
  /\ TSet_Contains(set, 2) /\ TSet_Contains(set, 3)

\* The handles i and j are one handle, or two live handles on one target
\* and one counter.
SameShare(i, j) ==
  \/ i = j
  \/ /\ sp[i].ptr # NullPtr /\ sp[i].ptr = sp[j].ptr
     /\ sp[i].refCount # NullPtr /\ sp[i].refCount = sp[j].refCount

\* C29: copy- or move-assignment between two distinct Shared Handles that
\* already alias one target, and self-assignment of either kind, destroys
\* no target and frees no counter; afterwards the counter still equals the
\* number of live handles on it.
C29_AliasedAssignKeepsTarget ==
  [][\A i, j \in SharedIds :
       CallOf({"assign/self", "assign/aliased",
               "moveAssign/self", "moveAssign/aliased"})
       /\ SameShare(i, j)
       /\ (TSharedPointer_assign(i, j) \/ TSharedPointer_moveAssign(i, j)) =>
         /\ obj' = obj
         /\ \A c \in Cells : cell[c].alloc => cell'[c].alloc
         /\ ~uaf'
         /\ sp[j].refCount # NullPtr =>
              cell'[sp[j].refCount].val =
                Cardinality({k \in SharedIds :
                               sp'[k].live /\ sp'[k].refCount = sp[j].refCount})]_vars

\* sp1 = sp1 on the only handle of the first object: the object is alive
\* and its counter is 1.
C29_Witness ==
  /\ last = "assign/self"
  /\ sp[1].live /\ sp[1].ptr = 1
  /\ ~sp[2].live /\ ~sp[3].live
  /\ cell[sp[1].refCount].alloc /\ cell[sp[1].refCount].val = 1
  /\ obj[1] = "live"

\* C30: lock() never reads a counter cell that has been freed: whenever
\* lock() runs on a Weak Handle whose refCount is not null, the cell it
\* points to is still allocated.
C30_LockReadsAllocatedCounter ==
  [][\A w \in WeakIds, i \in SharedIds :
       TWeakPointer_lock(w, i) /\ wp[w].refCount # NullPtr =>
         cell[wp[w].refCount].alloc]_vars

\* The container whose buffers heap[c] records.
Container(c) == CASE c = "arr" -> arr [] c = "map" -> map [] c = "set" -> set

\* C28: for a TArray, TMap or TSet, over every sequence of Add,
\* Remove/RemoveAt, lookup and Contains followed by destruction: no call
\* reads or writes a freed buffer or an index >= capacity; no buffer is
\* freed twice; a buffer is allocated exactly while it is the current one of
\* a container not yet destroyed, so each old buffer is freed at the growth
\* step and the current one at destruction.
C28_BuffersFreedOnce ==
  \A c \in {"arr", "map", "set"} :
    LET h == heap[c]
    IN /\ ~h.bad
       /\ \A p \in 1..Len(h.blocks) :
            h.blocks[p].st = IF p = h.Data /\ ~h.destroyed THEN "alloc" ELSE "freed"
       /\ h.Data = Len(h.blocks)
       /\ h.Data = NullPtr <=> Container(c).Capacity = 0
       /\ h.Data # NullPtr => h.blocks[h.Data].cap = Container(c).Capacity

\* A TArray that grew through buffers of 1, 2 and 4 slots and lost an
\* element has been destroyed: all three buffers are freed.
C28_Witness ==
  /\ last = "array.destroy"
  /\ heap.arr.destroyed
  /\ arrRemoved
  /\ Len(heap.arr.blocks) = 3
  /\ \A p \in 1..3 : heap.arr.blocks[p].st = "freed"
  /\ heap.arr.blocks[3].cap = 4
====
